---- MODULE Spec2Model ----
(***************************************************************************)
(* A model of the message-extraction Babel plugin of src/src/index.js.     *)
(*                                                                         *)
(* JavaScript strings that the plugin trims, parses or concatenates are    *)
(* sequences of one-character strings, so that trim, the ICU printer and   *)
(* the "##" key suffix are computed character by character.  Property and  *)
(* tag names, which the plugin only compares, are TLA+ strings.            *)
(***************************************************************************)
EXTENDS Naturals, Sequences, FiniteSets, TLC

\* ------------------------------------------------------------------------
\* Bounds of the model
\* ------------------------------------------------------------------------

\* Number of element/call nodes the host delivers in one compilation unit.
MaxNodes == 3

\* Number of storeMessage calls of the store-level specification StoreSpec.
MaxStores == 2

\* ------------------------------------------------------------------------
\* JavaScript values
\* ------------------------------------------------------------------------

\* The value `undefined`; no string equals it (its one element is no character).
Undefined == <<"undefined">>

\* JavaScript truthiness of a string-or-undefined value.
Truthy(v) == v /= Undefined /\ v /= <<>>

RECURSIVE trimStart(_)
trimStart(s) ==
    IF s /= <<>> /\ Head(s) = " " THEN trimStart(Tail(s)) ELSE s

RECURSIVE trimEnd(_)
trimEnd(s) ==
    IF s /= <<>> /\ s[Len(s)] = " " THEN trimEnd(SubSeq(s, 1, Len(s) - 1)) ELSE s

\* String.prototype.trim
trim(s) == trimEnd(trimStart(s))

\* message.indexOf('\\\\') >= 0 : two consecutive backslashes occur in s.
hasDoubleBackslash(s) ==
    \E i \in 1..(Len(s) - 1) : s[i] = "\\" /\ s[i + 1] = "\\"

\* ------------------------------------------------------------------------
\* Insertion-ordered maps (JavaScript objects and Map): sequences of <<k, v>>
\* ------------------------------------------------------------------------

MapHas(m, k) == \E i \in 1..Len(m) : m[i][1] = k

MapIndex(m, k) == CHOOSE i \in 1..Len(m) : m[i][1] = k

MapGet(m, k) == m[MapIndex(m, k)][2]

\* A mutant of MapSet: an existing key is deleted and re-inserted at the end.
MapSetMovesToEnd(m, k, v) ==
    Append(SelectSeq(m, LAMBDA e : e[1] /= k), <<k, v>>)

\* Map.prototype.set / property assignment: an existing key keeps its place.
MapSet(m, k, v) ==
    IF MapHas(m, k)
    THEN [m EXCEPT ![MapIndex(m, k)] = <<k, v>>]
    ELSE Append(m, <<k, v>>)

MapKeys(m) == [i \in 1..Len(m) |-> m[i][1]]

\* [...map.values()]
MapValues(m) == [i \in 1..Len(m) |-> m[i][2]]

\* obj[k], undefined when the property is absent
Field(m, k) == IF MapHas(m, k) THEN MapGet(m, k) ELSE Undefined

\* ------------------------------------------------------------------------
\* Errors (thrown with path.buildCodeFrameError)
\* ------------------------------------------------------------------------

NoError == "none"
StaticEvaluationFailure == "StaticEvaluationFailure"
MessageSyntaxError == "MessageSyntaxError"
MessageSyntaxErrorJSXEscaping == "MessageSyntaxError: backslash escaping in a JSX string literal"
MissingRequiredField == "MissingRequiredField"
MissingDescription == "MissingDescription"
DuplicateIdConflict == "DuplicateIdConflict"

Ok(v) == [err |-> NoError, value |-> v]
Fail(e) == [err |-> e, value |-> Undefined]

\* ------------------------------------------------------------------------
\* Constants of the plugin
\* ------------------------------------------------------------------------

\* A mutant of COMPONENT_NAMES: the react-intl components are enabled again.
COMPONENT_NAMES_Enabled == {"FormattedMessage", "FormattedHTMLMessage"}

COMPONENT_NAMES == {}

DESCRIPTOR_PROPS == {"id", "description", "defaultMessage"}

COMPONENT_NAME == "T"
MESSAGE_PROPERTY == "s"
COMMENT_PROPERTY == "c"

\* ------------------------------------------------------------------------
\* The message-format printer (./print-icu-message, not part of src/):
\* parse the text, print the syntax tree back.  Modelled for the argument
\* placeholders of the grammar: literal text is printed as it is, "{ name }"
\* is printed as "{name}", an unbalanced or empty brace is a parse error.
\* ------------------------------------------------------------------------

RECURSIVE printFrom(_, _, _, _)
printFrom(s, i, mode, out) ==
    IF i > Len(s)
    THEN [ok |-> mode = "text", value |-> out]
    ELSE LET ch == s[i]
             bad == [ok |-> FALSE, value |-> out]
         IN CASE mode = "text" ->
                   IF ch = "{" THEN printFrom(s, i + 1, "open", out)
                   ELSE IF ch = "}" THEN bad
                   ELSE printFrom(s, i + 1, "text", Append(out, ch))
              [] mode = "open" ->
                   IF ch = " " THEN printFrom(s, i + 1, "open", out)
                   ELSE IF ch \in {"{", "}"} THEN bad
                   ELSE printFrom(s, i + 1, "name", out \o <<"{", ch>>)
              [] mode = "name" ->
                   IF ch = " " THEN printFrom(s, i + 1, "close", out)
                   ELSE IF ch = "}" THEN printFrom(s, i + 1, "text", Append(out, "}"))
                   ELSE IF ch = "{" THEN bad
                   ELSE printFrom(s, i + 1, "name", Append(out, ch))
              [] OTHER ->
                   IF ch = " " THEN printFrom(s, i + 1, "close", out)
                   ELSE IF ch = "}" THEN printFrom(s, i + 1, "text", Append(out, "}"))
                   ELSE bad

printICUMessage(message) == printFrom(message, 1, "text", <<>>)

\* ------------------------------------------------------------------------
\* Static evaluation and value resolution
\* ------------------------------------------------------------------------

\* path.evaluate() is the host's: every expression node carries its outcome
\* in the fields confident and value.
evaluatePath(path) ==
    IF path.confident THEN Ok(path.value) ELSE Fail(StaticEvaluationFailure)

getMessageDescriptorKey(path) ==
    IF path.type \in {"Identifier", "JSXIdentifier"}
    THEN Ok(path.name)
    ELSE evaluatePath(path)

getMessageDescriptorValue(path) ==
    LET inner == IF path.type = "JSXExpressionContainer" THEN path.expression ELSE path
        evaluated == evaluatePath(inner)
    IN IF evaluated.err /= NoError THEN evaluated ELSE Ok(trim(evaluated.value))

isLiteral(path) == path.type = "StringLiteral"

getICUMessageValue(messagePath, isJSXSource) ==
    LET message == getMessageDescriptorValue(messagePath)
        printed == printICUMessage(message.value)
    IN IF message.err /= NoError THEN message
       ELSE IF printed.ok THEN Ok(printed.value)
       ELSE IF isJSXSource /\ isLiteral(messagePath) /\ hasDoubleBackslash(message.value)
            THEN Fail(MessageSyntaxErrorJSXEscaping)
       ELSE Fail(MessageSyntaxError)

\* ------------------------------------------------------------------------
\* Descriptor builder and resolver
\* ------------------------------------------------------------------------

\* One step of the reduce of createMessageDescriptor, the key being resolved.
descriptorStep(hash, key, valuePath, isTComp) ==
    IF isTComp
    THEN IF key = MESSAGE_PROPERTY
         THEN MapSet(MapSet(hash, "id", valuePath), "defaultMessage", valuePath)
         ELSE IF key = COMMENT_PROPERTY THEN MapSet(hash, COMMENT_PROPERTY, valuePath)
         ELSE hash
    ELSE IF key \in DESCRIPTOR_PROPS THEN MapSet(hash, key, valuePath) ELSE hash

RECURSIVE reduceProps(_, _, _)
reduceProps(propPaths, isTComp, hash) ==
    IF propPaths = <<>>
    THEN Ok(hash)
    ELSE LET keyPath == Head(propPaths)[1]
             valuePath == Head(propPaths)[2]
             key == getMessageDescriptorKey(keyPath)
         IN IF key.err /= NoError
            THEN Fail(key.err)
            ELSE reduceProps(Tail(propPaths), isTComp,
                             descriptorStep(hash, key.value, valuePath, isTComp))

createMessageDescriptor(propPaths, isTComp) == reduceProps(propPaths, isTComp, <<>>)

RECURSIVE evaluateFrom(_, _, _)
evaluateFrom(descriptor, i, isJSXSource) ==
    IF i > Len(descriptor)
    THEN Ok(descriptor)
    ELSE LET key == descriptor[i][1]
             valuePath == descriptor[i][2]
             resolved == IF key = "defaultMessage"
                         THEN getICUMessageValue(valuePath, isJSXSource)
                         ELSE getMessageDescriptorValue(valuePath)
         IN IF resolved.err /= NoError
            THEN Fail(resolved.err)
            ELSE evaluateFrom([descriptor EXCEPT ![i] = <<key, resolved.value>>],
                              i + 1, isJSXSource)

evaluateMessageDescriptor(descriptor, isJSXSource) ==
    evaluateFrom(descriptor, 1, isJSXSource)

\* ------------------------------------------------------------------------
\* The extraction store
\* ------------------------------------------------------------------------

\* file.opts.filename relative to the working directory, and file.opts.basename
FileName == "src/app.js"
DirName == "src"
BaseName == "app"

\* A mutant of storageKey: the comment is dropped from the key.
storageKeyIgnoresComment(id, c) == id

\* if (c) { id += '##' + c; }
storageKey(id, c) == IF Truthy(c) THEN id \o <<"#", "#">> \o c ELSE id

\* A mutant of storeChecks: the description check comes before the duplicate check.
storeChecksDescriptionFirst(id, description, defaultMessage, msgs, o) ==
    IF ~(Truthy(id) /\ Truthy(defaultMessage)) THEN MissingRequiredField
    ELSE IF o.enforceDescriptions /\ ~Truthy(description) THEN MissingDescription
    ELSE IF MapHas(msgs, id)
            /\ (description /= MapGet(msgs, id).description
                \/ defaultMessage /= MapGet(msgs, id).defaultMessage)
         THEN DuplicateIdConflict
    ELSE NoError

\* The three throwing checks of storeMessage, in the order of the code.
storeChecks(id, description, defaultMessage, msgs, o) ==
    IF ~(Truthy(id) /\ Truthy(defaultMessage)) THEN MissingRequiredField
    ELSE IF MapHas(msgs, id)
            /\ (description /= MapGet(msgs, id).description
                \/ defaultMessage /= MapGet(msgs, id).defaultMessage)
         THEN DuplicateIdConflict
    ELSE IF o.enforceDescriptions /\ ~Truthy(description) THEN MissingDescription
    ELSE NoError

\* storeMessage on descriptor (an object of resolved values) for the node at
\* `line`: the error thrown, the map afterwards and the key written.
storeMessage(descriptor, line, msgs, o) ==
    LET id == Field(descriptor, "id")
        description == Field(descriptor, "description")
        defaultMessage == Field(descriptor, "defaultMessage")
        c == Field(descriptor, COMMENT_PROPERTY)
        err == storeChecks(id, description, defaultMessage, msgs, o)
        loc == IF o.extractSourceLocation THEN <<FileName, ToString(line)>> ELSE <<>>
        key == storageKey(id, c)
        entry == [id |-> key, description |-> description,
                  defaultMessage |-> defaultMessage, loc |-> loc]
    IN IF err /= NoError
       THEN [err |-> err, messages |-> msgs, key |-> Undefined]
       ELSE [err |-> NoError, messages |-> MapSet(msgs, key, entry), key |-> key]

\* The arguments of one storeMessage call, as recorded in the history.
StoreCall(descriptor, n, key) ==
    [node |-> n,
     id |-> Field(descriptor, "id"),
     description |-> Field(descriptor, "description"),
     defaultMessage |-> Field(descriptor, "defaultMessage"),
     c |-> Field(descriptor, COMMENT_PROPERTY),
     key |-> key]

NoCall == StoreCall(<<>>, 0, Undefined)

\* ------------------------------------------------------------------------
\* Catalog serialisation
\* ------------------------------------------------------------------------

\* JSON.stringify of one descriptor: properties whose value is undefined are
\* left out; the others are written in property order.
stringifyEntry(e) ==
    (IF e.id /= Undefined THEN << <<"id", e.id>> >> ELSE <<>>)
    \o (IF e.description /= Undefined THEN << <<"description", e.description>> >> ELSE <<>>)
    \o (IF e.defaultMessage /= Undefined
        THEN << <<"defaultMessage", e.defaultMessage>> >> ELSE <<>>)
    \o (IF e.loc /= <<>>
        THEN << <<"file", <<e.loc[1]>> >>, <<"line", <<e.loc[2]>> >> >> ELSE <<>>)

JSONstringify(descriptors) ==
    [i \in 1..Len(descriptors) |-> stringifyEntry(descriptors[i])]

\* JSON.parse of a written catalog, read back as a descriptor list.
parseEntry(j) ==
    [id |-> Field(j, "id"),
     description |-> Field(j, "description"),
     defaultMessage |-> Field(j, "defaultMessage"),
     loc |-> IF MapHas(j, "file") THEN <<MapGet(j, "file")[1], MapGet(j, "line")[1]>>
             ELSE <<>>]

JSONparse(text) == [i \in 1..Len(text) |-> parseEntry(text[i])]

\* ------------------------------------------------------------------------
\* Syntax-tree nodes the host delivers
\* ------------------------------------------------------------------------

StringLiteral(v) == [type |-> "StringLiteral", confident |-> TRUE, value |-> v]

\* A reference to a run-time value: path.evaluate() is not confident.
RuntimeValue == [type |-> "Identifier", confident |-> FALSE, value |-> Undefined]

JSXExpressionContainer(e) == [type |-> "JSXExpressionContainer", expression |-> e]

JSXIdentifier(n) == [type |-> "JSXIdentifier", name |-> n]

\* An attribute name such as xml:lang is no identifier and does not evaluate.
JSXNamespacedName == [type |-> "JSXNamespacedName", confident |-> FALSE, value |-> Undefined]

JSXAttribute(k, v) == [type |-> "JSXAttribute", name |-> k, value |-> v]

JSXSpreadAttribute == [type |-> "JSXSpreadAttribute"]

\* binding: <<module, imported name>> when the tag refers to an import, else <<>>.
JSXElement(tag, binding, attrs) ==
    [type |-> "JSXOpeningElement",
     name |-> [type |-> "JSXIdentifier", name |-> tag, binding |-> binding],
     attributes |-> attrs]

Call(callee, args) ==
    [type |-> "CallExpression", callee |-> callee, arguments |-> args]

TextA == <<"a">>
TextB == <<"b">>
TextD == <<"d">>
TextAB == <<"a", "#", "#", "b">>
TextArg == <<" ", "{", " ", "n", " ", "}", " ">>
TextBrace == <<"{">>
TextEscaped == <<"\\", "\\", "{">>
TextBlank == <<" ">>

\* The element nodes a unit is made of.
JSXSources ==
    << \* <T s="a" />
       JSXElement("T", <<>>, <<JSXAttribute(JSXIdentifier("s"), StringLiteral(TextA))>>),
       \* <T s=" { n } " />
       JSXElement("T", <<>>, <<JSXAttribute(JSXIdentifier("s"), StringLiteral(TextArg))>>),
       \* <T c="b" s={"a"} description="d" />
       JSXElement("T", <<>>,
           <<JSXAttribute(JSXIdentifier("c"), StringLiteral(TextB)),
             JSXAttribute(JSXIdentifier("s"), JSXExpressionContainer(StringLiteral(TextA))),
             JSXAttribute(JSXIdentifier("description"), StringLiteral(TextD))>>),
       \* <T {...props} c="b" description="d" />
       JSXElement("T", <<>>,
           <<JSXSpreadAttribute,
             JSXAttribute(JSXIdentifier("c"), StringLiteral(TextB)),
             JSXAttribute(JSXIdentifier("description"), StringLiteral(TextD))>>),
       \* <T s={text} />
       JSXElement("T", <<>>,
           <<JSXAttribute(JSXIdentifier("s"), JSXExpressionContainer(RuntimeValue))>>),
       \* <T s="\\{" />
       JSXElement("T", <<>>, <<JSXAttribute(JSXIdentifier("s"), StringLiteral(TextEscaped))>>),
       \* <T xml:lang="a" />
       JSXElement("T", <<>>, <<JSXAttribute(JSXNamespacedName, StringLiteral(TextA))>>),
       \* <FormattedMessage id="a" description="d" defaultMessage="a" />
       JSXElement("FormattedMessage", <<"react-intl", "FormattedMessage">>,
           <<JSXAttribute(JSXIdentifier("id"), StringLiteral(TextA)),
             JSXAttribute(JSXIdentifier("description"), StringLiteral(TextD)),
             JSXAttribute(JSXIdentifier("defaultMessage"), StringLiteral(TextA))>>),
       \* <FormattedPlural value={n} other="a" />
       JSXElement("FormattedPlural", <<"react-intl", "FormattedPlural">>,
           <<JSXAttribute(JSXIdentifier("other"), StringLiteral(TextA))>>) >>

\* The call nodes a unit is made of.
CallSources ==
    << \* t("a")
       Call("t", <<StringLiteral(TextA)>>),
       \* t(" { n } ")
       Call("t", <<StringLiteral(TextArg)>>),
       \* t("a", values, "b")
       Call("t", <<StringLiteral(TextA), RuntimeValue, StringLiteral(TextB)>>),
       \* t("a##b")
       Call("t", <<StringLiteral(TextAB)>>),
       \* t(" ")
       Call("t", <<StringLiteral(TextBlank)>>),
       \* t("{")
       Call("t", <<StringLiteral(TextBrace)>>),
       \* t(text)
       Call("t", <<RuntimeValue>>),
       \* f("a")
       Call("f", <<StringLiteral(TextA)>>),
       \* t("a", values, " ")
       Call("t", <<StringLiteral(TextA), RuntimeValue, StringLiteral(TextBlank)>>) >>

\* A node of the tree: the place of its source text in JSXSources or
\* CallSources, the attributes it has now, and the EXTRACTED_TAG property.
NewNode(type, k) ==
    IF type = "JSXOpeningElement"
    THEN [type |-> type, source |-> k, attributes |-> JSXSources[k].attributes,
          extracted |-> FALSE]
    ELSE [type |-> type, source |-> k, extracted |-> FALSE]

\* ------------------------------------------------------------------------
\* State
\* ------------------------------------------------------------------------

VARIABLES
    opts,       \* state.opts, the plugin's options
    pc,         \* where the traversal of the unit is: start, traverse, failed, done
    nodes,      \* the nodes delivered so far, in document order
    messages,   \* state.reactIntl.messages, the Map of the unit
    metadata,   \* file.metadata['react-intl']
    written,    \* the catalog file written by writeFileSync
    warnings,   \* the lines file.log.warn was called for
    error,      \* the error that aborted the traversal
    event,      \* the visitor callback that ran last
    lastVisit,  \* the position of the node it ran on
    lastStore,  \* the arguments of the last storeMessage call
    stored      \* the storeMessage calls that returned, in order

vars == <<opts, pc, nodes, messages, metadata, written, warnings, error,
          event, lastVisit, lastStore, stored>>

NotSet == [set |-> FALSE, messages |-> <<>>]
NoFile == [exists |-> FALSE, path |-> <<>>, content |-> <<>>]

Init ==
    /\ opts \in [moduleSourceName : {""},
                 enforceDescriptions : BOOLEAN,
                 extractSourceLocation : BOOLEAN,
                 messagesDir : {"", "build/messages"}]
    /\ pc = "start"
    /\ nodes = <<>>
    /\ messages = <<>>
    /\ metadata = NotSet
    /\ written = NoFile
    /\ warnings = {}
    /\ error = NoError
    /\ event = "none"
    /\ lastVisit = 0
    /\ lastStore = NoCall
    /\ stored = <<>>

\* ------------------------------------------------------------------------
\* Helpers of the visitor
\* ------------------------------------------------------------------------

getModuleSourceName(o) ==
    IF o.moduleSourceName /= "" THEN o.moduleSourceName ELSE "react-intl"

\* path.referencesImport(mod, name), answered by the host from the binding
nameReferencesImport(name, mod, imported) == name.binding = <<mod, imported>>

referencesImport(name, mod, importedNames) ==
    /\ name.type \in {"Identifier", "JSXIdentifier"}
    /\ \E imported \in importedNames : nameReferencesImport(name, mod, imported)

tagAsExtracted(n) == [n EXCEPT !.extracted = TRUE]

\* A mutant of wasExtracted: the tag is never seen.
wasExtractedNever(n) == FALSE

wasExtracted(n) == n.extracted

\* A mutant of hasDefaultMessage: every recognized element is resolved and stored.
hasDefaultMessageAlways(descriptor) == TRUE

\* if (descriptor.defaultMessage)
hasDefaultMessage(descriptor) == MapHas(descriptor, "defaultMessage")

\* attributes.some(...): the first simple attribute named description is removed.
removeDescription(attributes) ==
    LET named == {j \in 1..Len(attributes) :
                     /\ attributes[j].type = "JSXAttribute"
                     /\ getMessageDescriptorKey(attributes[j].name).err = NoError
                     /\ getMessageDescriptorKey(attributes[j].name).value = "description"}
        first == CHOOSE j \in named : \A k \in named : j <= k
    IN IF named = {}
       THEN attributes
       ELSE SubSeq(attributes, 1, first - 1) \o SubSeq(attributes, first + 1, Len(attributes))

\* The state after a callback, all variables it may write.
Step(ev, n, ns, msgs, p, err, warn, call, st) ==
    /\ event' = ev
    /\ lastVisit' = n
    /\ nodes' = ns
    /\ messages' = msgs
    /\ pc' = p
    /\ error' = err
    /\ warnings' = warn
    /\ lastStore' = call
    /\ stored' = st
    /\ UNCHANGED <<opts, metadata, written>>

\* The callback returns normally without an effect.
Return(ev, n, ns) ==
    Step(ev, n, ns, messages, pc, error, warnings, lastStore, stored)

\* A mutant of Throw: the error is reported and the traversal goes on.
ThrowReportedOnly(ev, n, ns, err, call) ==
    Step(ev, n, ns, messages, pc, err, warnings, call, stored)

\* throw path.buildCodeFrameError(...): the exception leaves the callback and
\* the host's traversal of the unit.
Throw(ev, n, ns, err, call) ==
    Step(ev, n, ns, messages, "failed", err, warnings, call, stored)

\* The node sequences a callback for position n may run on: the nodes as they
\* are when n was delivered before, the nodes with a new node when n is next.
Delivered(n, type, sources) ==
    IF n <= Len(nodes)
    THEN IF nodes[n].type = type THEN {nodes} ELSE {}
    ELSE IF n = Len(nodes) + 1
         THEN {Append(nodes, NewNode(type, k)) : k \in 1..Len(sources)}
         ELSE {}

\* ------------------------------------------------------------------------
\* The visitor
\* ------------------------------------------------------------------------

\* Program.enter
ProgramEnter ==
    /\ pc = "start"
    /\ pc' = "traverse"
    /\ messages' = <<>>
    /\ event' = "Program.enter"
    /\ UNCHANGED <<opts, nodes, metadata, written, warnings, error,
                   lastVisit, lastStore, stored>>

\* The body of the JSXOpeningElement callback on node n of ns.
JSXOpeningElementOn(ns, n) ==
    LET ev == "JSXOpeningElement"
        name == JSXSources[ns[n].source].name
        isTComp == name.name = COMPONENT_NAME
        moduleSourceName == getModuleSourceName(opts)
        attributes == SelectSeq(ns[n].attributes, LAMBDA a : a.type = "JSXAttribute")
        descriptor == createMessageDescriptor(
                          [j \in 1..Len(attributes) |->
                              <<attributes[j].name, attributes[j].value>>], isTComp)
        evaluated == evaluateMessageDescriptor(descriptor.value, TRUE)
        result == storeMessage(evaluated.value, n, messages, opts)
        call == StoreCall(evaluated.value, n, result.key)
    IN IF wasExtracted(ns[n]) THEN Return(ev, n, ns)
       ELSE IF nameReferencesImport(name, moduleSourceName, "FormattedPlural")
       THEN Step(ev, n, ns, messages, pc, error, warnings \cup {n}, lastStore, stored)
       ELSE IF ~(referencesImport(name, moduleSourceName, COMPONENT_NAMES) \/ isTComp)
       THEN Return(ev, n, ns)
       ELSE IF descriptor.err /= NoError THEN Throw(ev, n, ns, descriptor.err, lastStore)
       ELSE IF ~hasDefaultMessage(descriptor.value) THEN Return(ev, n, ns)
       ELSE IF evaluated.err /= NoError THEN Throw(ev, n, ns, evaluated.err, lastStore)
       ELSE IF result.err /= NoError THEN Throw(ev, n, ns, result.err, call)
       ELSE Step(ev, n,
                 [ns EXCEPT ![n] = tagAsExtracted(
                     [@ EXCEPT !.attributes = removeDescription(@)])],
                 result.messages, pc, error, warnings, call, Append(stored, call))

\* The JSXOpeningElement callback, on the n-th node of the unit.
JSXOpeningElement(n) ==
    /\ pc = "traverse"
    /\ \E ns \in Delivered(n, "JSXOpeningElement", JSXSources) : JSXOpeningElementOn(ns, n)

\* The body of the CallExpression callback on node n of ns.
CallExpressionOn(ns, n) ==
    LET ev == "CallExpression"
        node == CallSources[ns[n].source]
        arguments == node.arguments
        text == getICUMessageValue(arguments[1], FALSE)
        c == IF Len(arguments) >= 3
             THEN getMessageDescriptorValue(arguments[3])
             ELSE Ok(Undefined)
        descriptor == << <<"id", text.value>>, <<"defaultMessage", text.value>>,
                         <<COMMENT_PROPERTY, c.value>> >>
        result == storeMessage(descriptor, n, messages, opts)
        call == StoreCall(descriptor, n, result.key)
    IN IF wasExtracted(ns[n]) THEN Return(ev, n, ns)
       ELSE IF node.callee /= "t" THEN Return(ev, n, ns)
       ELSE IF text.err /= NoError THEN Throw(ev, n, ns, text.err, lastStore)
       ELSE IF c.err /= NoError THEN Throw(ev, n, ns, c.err, lastStore)
       ELSE IF result.err /= NoError THEN Throw(ev, n, ns, result.err, call)
       ELSE Step(ev, n, [ns EXCEPT ![n] = tagAsExtracted(@)],
                 result.messages, pc, error, warnings, call, Append(stored, call))

\* The CallExpression callback, on the n-th node of the unit.
CallExpression(n) ==
    /\ pc = "traverse"
    /\ \E ns \in Delivered(n, "CallExpression", CallSources) : CallExpressionOn(ns, n)

\* A mutant of shouldWrite: an empty catalog is written too.
shouldWriteWhenConfigured(o, descriptors) == o.messagesDir /= ""

\* if (opts.messagesDir && descriptors.length > 0)
shouldWrite(o, descriptors) == o.messagesDir /= "" /\ Len(descriptors) > 0

\* Program.exit: reached when no callback threw.
ProgramExit ==
    LET descriptors == MapValues(messages)
        messagesFilename == <<opts.messagesDir, DirName, BaseName \o ".json">>
    IN /\ pc = "traverse"
       /\ pc' = "done"
       /\ event' = "Program.exit"
       /\ metadata' = [set |-> TRUE, messages |-> descriptors]
       /\ written' = IF shouldWrite(opts, descriptors)
                     THEN [exists |-> TRUE, path |-> messagesFilename,
                           content |-> JSONstringify(descriptors)]
                     ELSE written
       /\ UNCHANGED <<opts, nodes, messages, warnings, error, lastVisit, lastStore, stored>>

Next ==
    \/ ProgramEnter
    \/ \E n \in 1..MaxNodes : JSXOpeningElement(n)
    \/ \E n \in 1..MaxNodes : CallExpression(n)
    \/ ProgramExit

Spec == Init /\ [][Next]_vars

\* ------------------------------------------------------------------------
\* storeMessage on its own: the descriptors a caller may pass
\* ------------------------------------------------------------------------

StoreInputs ==
    { << <<"id", i>>, <<"description", d>>, <<"defaultMessage", m>>,
         <<COMMENT_PROPERTY, c>> >> :
        i \in {TextA, TextAB, <<>>}, d \in {Undefined, TextD},
        m \in {TextA, TextB}, c \in {Undefined, TextB} }

\* One call of storeMessage during the traversal, for the next node.
StoreDescriptor(descriptor) ==
    LET n == Len(stored) + 1
        result == storeMessage(descriptor, n, messages, opts)
        call == StoreCall(descriptor, n, result.key)
    IN /\ pc = "traverse"
       /\ Len(stored) < MaxStores
       /\ IF result.err /= NoError
          THEN Throw("storeMessage", n, nodes, result.err, call)
          ELSE Step("storeMessage", n, nodes, result.messages, pc, error, warnings,
                    call, Append(stored, call))

StoreNext ==
    \/ ProgramEnter
    \/ \E descriptor \in StoreInputs : StoreDescriptor(descriptor)

StoreSpec == Init /\ [][StoreNext]_vars

\* ------------------------------------------------------------------------
\* Properties
\* ------------------------------------------------------------------------

Callbacks == {"JSXOpeningElement", "CallExpression"}

\* The keys of the calls in history, each at its first occurrence only.
RECURSIVE FirstOccurrences(_)
FirstOccurrences(keys) ==
    IF keys = <<>>
    THEN <<>>
    ELSE LET before == FirstOccurrences(SubSeq(keys, 1, Len(keys) - 1))
             last == keys[Len(keys)]
         IN IF \E i \in 1..Len(before) : before[i] = last
            THEN before
            ELSE Append(before, last)

StoredKeys == [k \in 1..Len(stored) |-> stored[k].key]

IsShorthand(nd) ==
    nd.type = "JSXOpeningElement" /\ JSXSources[nd.source].name.name = COMPONENT_NAME

\* An element whose tag is FormattedMessage or FormattedHTMLMessage imported
\* from the configured module.
IsStandardElement(nd) ==
    /\ nd.type = "JSXOpeningElement"
    /\ \E imported \in {"FormattedMessage", "FormattedHTMLMessage"} :
           JSXSources[nd.source].name.binding = <<getModuleSourceName(opts), imported>>

HasAttribute(attributes, key) ==
    \E j \in 1..Len(attributes) :
        /\ attributes[j].type = "JSXAttribute"
        /\ attributes[j].name.type = "JSXIdentifier"
        /\ attributes[j].name.name = key

\* C1: two occurrences with the same effective storage key that differ in
\* description or defaultMessage are never both stored: the later one raises
\* the conflict error, so that no stored entry is overwritten with other values.
C1_ConflictIsRaised ==
    \A j, k \in 1..Len(stored) :
        (j < k /\ stored[j].key = stored[k].key)
            => /\ stored[j].description = stored[k].description
               /\ stored[j].defaultMessage = stored[k].defaultMessage

\* C2: the store, and the catalog exported at Program exit, hold one entry per
\* distinct effective storage key, in the order in which the keys were first
\* stored; a repeated key neither adds an entry nor moves one.
C2_OneEntryPerKeyInFirstVisitOrder ==
    /\ MapKeys(messages) = FirstOccurrences(StoredKeys)
    /\ metadata.set =>
           [i \in 1..Len(metadata.messages) |-> metadata.messages[i].id]
               = FirstOccurrences(StoredKeys)

C2_Witness ==
    /\ pc = "done"
    /\ Len(stored) = 3
    /\ stored[1].key = stored[3].key
    /\ stored[2].key /= stored[1].key
    /\ Len(metadata.messages) = 2

\* C3: a descriptor with id X and a non-empty comment c is stored under the
\* key X ## c, an entry other than the one of a bare X, with the key as its id
\* field; when a unit holds a bare X and an X with a comment, in either order,
\* the second is stored too and both entries are in the store.
C3_CommentKey ==
    /\ \A k \in 1..Len(stored) :
           Truthy(stored[k].c) =>
               /\ stored[k].key = stored[k].id \o <<"#", "#">> \o stored[k].c
               /\ stored[k].key /= stored[k].id
               /\ MapHas(messages, stored[k].key)
               /\ MapGet(messages, stored[k].key).id = stored[k].key
               /\ \A j \in 1..Len(stored) :
                      (~Truthy(stored[j].c) /\ stored[j].id = stored[k].id) =>
                          /\ stored[j].key = stored[j].id
                          /\ MapHas(messages, stored[j].key)
                          /\ MapIndex(messages, stored[j].key)
                                 /= MapIndex(messages, stored[k].key)
    /\ ( /\ Len(stored) >= 1
         /\ stored[1].node = 1
         /\ lastStore.node = 2
         /\ lastStore.id = stored[1].id
         /\ Truthy(lastStore.c) /= Truthy(stored[1].c) )
           => (Len(stored) >= 2 /\ stored[2] = lastStore)

C3_Witness ==
    /\ Len(stored) = 2
    /\ stored[1].id = stored[2].id
    /\ Truthy(stored[1].c)
    /\ ~Truthy(stored[2].c)
    /\ Len(messages) = 2

\* C4: once a callback has raised an error, the traversal of the unit is over
\* and Program exit is not reached: no metadata is exported and no file written.
C4_NoEmissionAfterError ==
    error /= NoError => (pc = "failed" /\ ~metadata.set /\ ~written.exists)

C4_Witness ==
    /\ error /= NoError
    /\ Len(messages) >= 2
    /\ opts.messagesDir /= ""

\* C5: at Program exit the metadata record is the list of the store's values
\* in insertion order; a file is written exactly when messagesDir is set and
\* the list is not empty, and the file reads back as the same list.
C5_Emission ==
    pc = "done" =>
        /\ metadata.set
        /\ metadata.messages = MapValues(messages)
        /\ written.exists <=> (opts.messagesDir /= "" /\ Len(messages) > 0)
        /\ written.exists => JSONparse(written.content) = metadata.messages

C5_Witness ==
    /\ pc = "done"
    /\ written.exists
    /\ Len(metadata.messages) >= 2
    /\ opts.extractSourceLocation

\* C6 as stated: a standard descriptor element with resolvable id, description
\* and defaultMessage is extracted: an entry with the three fields is stored,
\* the description attribute is removed and the node is marked.
C6_StandardElementExtracted ==
    \A n \in 1..Len(nodes) :
        IsStandardElement(nodes[n]) =>
            /\ nodes[n].extracted
            /\ ~HasAttribute(nodes[n].attributes, "description")
            /\ \E i \in 1..Len(messages) :
                   /\ messages[i][2].id = TextA
                   /\ messages[i][2].description = TextD
                   /\ messages[i][2].defaultMessage = TextA

\* C6 amended: a standard descriptor element is not extracted, no component
\* name being recognized: its visit calls storeMessage not at all, raises no
\* error, removes no attribute and leaves the node unmarked.  Every stored
\* descriptor comes from an element named T or from a call.
C6_StandardElementSkipped ==
    /\ \A n \in 1..Len(nodes) :
           IsStandardElement(nodes[n]) =>
               /\ ~nodes[n].extracted
               /\ nodes[n].attributes = JSXSources[nodes[n].source].attributes
               /\ lastStore.node /= n
               /\ \A k \in 1..Len(stored) : stored[k].node /= n
               /\ lastVisit = n => error = NoError
    /\ \A k \in 1..Len(stored) :
           \/ IsShorthand(nodes[stored[k].node])
           \/ nodes[stored[k].node].type = "CallExpression"

C6_Witness ==
    /\ lastVisit >= 2
    /\ IsStandardElement(nodes[lastVisit])
    /\ HasAttribute(nodes[lastVisit].attributes, "description")
    /\ Len(messages) >= 1

\* C7: a callback invoked on a node that is marked processed changes neither
\* the store nor the tree nor a marker and raises no error; and a node is
\* marked only when storeMessage has returned for it.
C7_RevisitSuppression ==
    /\ [](\A n \in 1..Len(nodes) :
              nodes[n].extracted => \E k \in 1..Len(stored) : stored[k].node = n)
    /\ [][(/\ event' \in Callbacks
           /\ lastVisit' \in 1..Len(nodes)
           /\ nodes[lastVisit'].extracted)
              => UNCHANGED <<messages, nodes, pc, error, warnings, lastStore, stored,
                             metadata, written>>]_vars

C7_Witness ==
    /\ event \in Callbacks
    /\ lastVisit >= 1
    /\ lastVisit < Len(nodes)
    /\ nodes[lastVisit].extracted
    /\ Len(messages) >= 2

\* C8: every descriptor stored from a shorthand element or from a call has
\* the same value as its id and as its defaultMessage.
C8_IdIsDefaultMessage ==
    \A k \in 1..Len(stored) : stored[k].id = stored[k].defaultMessage

\* The entry of the store that the claim's third check compares with.
ConflictsUnder(key, call, msgs) ==
    /\ MapHas(msgs, key)
    /\ \/ call.description /= MapGet(msgs, key).description
       \/ call.defaultMessage /= MapGet(msgs, key).defaultMessage

HasRequiredFields(call) == Truthy(call.id) /\ Truthy(call.defaultMessage)

NoMessageReference(nd) ==
    /\ IsShorthand(nd)
    /\ ~HasAttribute(nd.attributes, MESSAGE_PROPERTY)
    /\ \A j \in 1..Len(nd.attributes) :
           nd.attributes[j].type = "JSXAttribute"
               => nd.attributes[j].name.type = "JSXIdentifier"

\* C10: the element callback on a shorthand element whose attributes give no
\* defaultMessage reference raises no error and changes nothing: the store is
\* as before, no attribute is removed and the node is not marked.
C10_NoDefaultMessageNoEffect ==
    [][(/\ event' = "JSXOpeningElement"
        /\ lastVisit' \in 1..Len(nodes')
        /\ NoMessageReference(nodes'[lastVisit']))
           => /\ UNCHANGED <<messages, pc, error, warnings, lastStore, stored,
                             metadata, written>>
              /\ error' = NoError
              /\ nodes'[lastVisit'] = NewNode("JSXOpeningElement", nodes'[lastVisit'].source)
              /\ \A m \in 1..Len(nodes) : nodes'[m] = nodes[m]]_vars

C10_Witness ==
    /\ event = "JSXOpeningElement"
    /\ lastVisit >= 2
    /\ NoMessageReference(nodes[lastVisit])
    /\ HasAttribute(nodes[lastVisit].attributes, "description")
    /\ Len(messages) >= 1

====
